---- MODULE Spec2Model ----
(***************************************************************************)
(* Fleet Dashboard (src/app.py): a Streamlit script that reads an uploaded *)
(* workbook, filters the "Income" sheet by driver and pickup date, groups  *)
(* it by (Truck, Driver), attributes the other sheets' amounts to ten      *)
(* expense categories per truck, derives profit figures, draws two charts  *)
(* and exports the summary.                                                *)
(*                                                                         *)
(* The script is rerun from the top on every widget interaction.  One      *)
(* action models one commented section of the script; pc is the position   *)
(* of the current run.                                                     *)
(*                                                                         *)
(* Representation of spreadsheet values:                                   *)
(*   - text cells (Truck, Driver, identifiers) are strings, the empty     *)
(*     cell is NaN;                                                        *)
(*   - numeric cells are <<v>> for the number v and <<>> for the empty    *)
(*     cell (pandas NaN);                                                  *)
(*   - a Pickup cell is the sequence of its comma-separated pieces, the   *)
(*     empty cell is <<>>;                                                 *)
(*   - sheet and column names are sequences of characters, so that        *)
(*     lower-casing and substring search are computed;                    *)
(*   - a timestamp is a number of ticks (TicksPerDay ticks a day), a date *)
(*     is a day number, the missing timestamp or date is NaT.             *)
(***************************************************************************)
EXTENDS Integers, Sequences, FiniteSets, TLC

\* ------------------------------------------------------------------ bounds
\* Largest number of rows of the uploaded Income sheet.
MaxRows == 2
\* Largest number of sheets of the workbook besides "Income".
MaxSheets == 2

\* ------------------------------------------------------------- text values
NaN == "NaN"
NaT == -1
TicksPerDay == 2

UpperCase == <<"A","B","C","D","E","F","G","H","I","J","K","L","M",
               "N","O","P","Q","R","S","T","U","V","W","X","Y","Z">>
LowerCase == <<"a","b","c","d","e","f","g","h","i","j","k","l","m",
               "n","o","p","q","r","s","t","u","v","w","x","y","z">>

\* str.lower() on one character.
UpperLetters == {UpperCase[i] : i \in 1..Len(UpperCase)}

LowerTable ==
    [c \in UpperLetters |->
        LowerCase[CHOOSE i \in 1..Len(UpperCase) : UpperCase[i] = c]]

LowerChar(c) == IF c \in UpperLetters THEN LowerTable[c] ELSE c

\* str.lower()
lower(s) == [i \in 1..Len(s) |-> LowerChar(s[i])]

\* Python's `sub in s` on strings.
In(sub, s) ==
    \E i \in 0..(Len(s) - Len(sub)) : \A j \in 1..Len(sub) : s[i + j] = sub[j]

\* ------------------------------------------------------- uploaded workbooks
\* Rows an uploaded Income sheet is made of.  Inv_Amt and Net_pay stand for
\* the columns "Inv Amt" and "Net pay".
IncomeRowPool == <<
    [Truck |-> "T1", Driver |-> "D1", Pickup |-> <<"2024-01-05", " AM">>,
     Inv_Amt |-> <<1000>>, Net_pay |-> <<800>>],
    [Truck |-> "T1", Driver |-> "D1", Pickup |-> <<"2024-01-10", " PM">>,
     Inv_Amt |-> <<500>>, Net_pay |-> <<400>>],
    [Truck |-> "T1", Driver |-> "D2", Pickup |-> <<"2024-01-07">>,
     Inv_Amt |-> <<>>, Net_pay |-> <<250>>],
    [Truck |-> NaN, Driver |-> "D1", Pickup |-> <<>>,
     Inv_Amt |-> <<700>>, Net_pay |-> <<600>>],
    [Truck |-> "T2", Driver |-> NaN, Pickup |-> <<"not a date">>,
     Inv_Amt |-> <<100>>, Net_pay |-> <<>>],
    [Truck |-> "T2", Driver |-> "D1", Pickup |-> <<"2024-01-10 15:00", " PM">>,
     Inv_Amt |-> <<300>>, Net_pay |-> <<250>> ] >>

\* Sort order of the group keys (groupby sorts its keys).
TruckOrder == <<"T1", "T2">>
DriverOrder == <<"D1", "D2">>

\* Sheets a workbook holds besides "Income": name, column names, rows.
SheetPool == <<
    [name |-> <<"F","u","e","l">>,
     columns |-> << <<"T","r","u","c","k">>, <<"A","m","o","u","n","t">> >>,
     rows |-> << <<"T1", <<200>> >>, <<"T2", <<30>> >> >>],
    [name |-> <<"R","e","p","a","i","r","s","L","o","g">>,
     columns |-> << <<"U","n","i","t">>, <<"C","o","s","t">> >>,
     rows |-> << <<"T1", <<120>> >>, <<"t1", <<999>> >>, <<"T2", <<>> >> >>],
    [name |-> <<"D","r","i","v","e","r"," ","L","o","a","n","s">>,
     columns |-> << <<"D","a","t","e">>, <<"T","R","U","C","K"," ","#">>,
                    <<"T","o","t","a","l"," ","C","o","s","t">>,
                    <<"A","m","o","u","n","t">> >>,
     rows |-> << <<"Jan", "T2", <<75>>, <<1>> >> >>],
    [name |-> <<"M","i","s","c">>,
     columns |-> << <<"T","r","u","c","k">>, <<"A","m","o","u","n","t">> >>,
     rows |-> << <<"T1", <<60>> >> >>],
    [name |-> <<"T","o","l","l","s">>,
     columns |-> << <<"P","l","a","t","e">>, <<"A","m","o","u","n","t">> >>,
     rows |-> << <<"T1", <<15>> >> >>],
    [name |-> <<"I","n","s","u","r","a","n","c","e">>,
     columns |-> << <<"U","n","i","t">>, <<"P","r","e","m","i","u","m">> >>,
     rows |-> << <<"T1", <<90>> >> >>],
    [name |-> <<"f","u","e","l"," ","c","a","r","d">>,
     columns |-> << <<"u","n","i","t"," ","n","o">>,
                    <<"f","u","e","l"," ","c","o","s","t">> >>,
     rows |-> << <<"T1", <<40>> >>, <<"T1", <<10>> >>, <<NaN, <<5>> >> >>] >>

\* The entries of pool at the positions in S, in pool order.
Pick(pool, S) ==
    LET F[i \in 0..Len(pool)] ==
            IF i = 0 THEN <<>>
            ELSE IF i \in S THEN Append(F[i - 1], pool[i]) ELSE F[i - 1]
    IN  F[Len(pool)]

\* The workbooks a user may upload: without an "Income" sheet, or with one
\* whose "Pickup" column is present or absent.
Workbooks ==
    { [has_income |-> TRUE, has_pickup |-> hp,
       income |-> Pick(IncomeRowPool, R), others |-> Pick(SheetPool, S)] :
        hp \in BOOLEAN,
        R \in {X \in SUBSET (1..Len(IncomeRowPool)) : Cardinality(X) <= MaxRows},
        S \in {X \in SUBSET (1..Len(SheetPool)) : Cardinality(X) <= MaxSheets} }
    \cup
    { [has_income |-> FALSE, has_pickup |-> FALSE,
       income |-> <<>>, others |-> Pick(SheetPool, S)] :
        S \in {X \in SUBSET (1..Len(SheetPool)) : Cardinality(X) <= MaxSheets} }

NoFile == [has_income |-> FALSE, has_pickup |-> FALSE,
           income |-> <<>>, others |-> <<>>]

\* ------------------------------------------------------------- Parse dates
\* pd.to_datetime(text, errors="coerce") on one piece of text.
to_datetime(text) ==
    CASE text = "2024-01-05" -> 5 * TicksPerDay
      [] text = "2024-01-07" -> 7 * TicksPerDay
      [] text = "2024-01-10" -> 10 * TicksPerDay
      [] text = "2024-01-10 15:00" -> 10 * TicksPerDay + 1
      [] OTHER -> NaT

\* .astype(str).str.split(","): the empty cell becomes the text "nan".
astype_str_split(cell) == IF cell = <<>> THEN <<"nan">> ELSE cell

\* Lines 28-31: the Pickup_Date column.
Pickup_Date(has_pickup, row) ==
    IF has_pickup THEN to_datetime(astype_str_split(row.Pickup)[1]) ELSE NaT

ParseDates(wb) ==
    [i \in 1..Len(wb.income) |->
        [Truck |-> wb.income[i].Truck, Driver |-> wb.income[i].Driver,
         Inv_Amt |-> wb.income[i].Inv_Amt, Net_pay |-> wb.income[i].Net_pay,
         Pickup_Date |-> Pickup_Date(wb.has_pickup, wb.income[i])]]

\* ----------------------------------------------------------------- Filters
\* Line 37: income_df["Driver"].dropna().unique()
drivers(df) == {df[i].Driver : i \in 1..Len(df)} \ {NaN}

ParsedDates(df) == {df[i].Pickup_Date : i \in 1..Len(df)} \ {NaT}

\* Lines 41-42: Series.min() and .max() skip NaT; NaT when nothing is left.
min_date(df) ==
    IF ParsedDates(df) = {} THEN NaT
    ELSE CHOOSE d \in ParsedDates(df) : \A e \in ParsedDates(df) : d <= e

max_date(df) ==
    IF ParsedDates(df) = {} THEN NaT
    ELSE CHOOSE d \in ParsedDates(df) : \A e \in ParsedDates(df) : d >= e

\* The date of a timestamp, as the date widget returns it.
DateOf(ts) == IF ts = NaT THEN NaT ELSE ts \div TicksPerDay

\* Line 48: pd.to_datetime(date): midnight of that day.
DateToTimestamp(d) == IF d = NaT THEN NaT ELSE d * TicksPerDay

\* Line 43: the widget's value before the user touches it.
DefaultDateRange(df) == <<DateOf(min_date(df)), DateOf(max_date(df))>>

\* Comparisons of timestamps: any comparison with NaT is False.
Ge(a, b) == a # NaT /\ b # NaT /\ a >= b
\* A faulty upper bound: the end of the range excluded.
Le_strict(a, b) == a # NaT /\ b # NaT /\ a < b

Le(a, b) == a # NaT /\ b # NaT /\ a <= b

\* Line 46: income_df[income_df["Driver"].isin(selected_driver)]
DriverFilter(df, selected) == SelectSeq(df, LAMBDA r : r.Driver \in selected)

\* Lines 47-49.
DateFilter(df, range) ==
    IF Len(range) = 2
    THEN LET start == DateToTimestamp(range[1])
             end == DateToTimestamp(range[2])
         IN  SelectSeq(df, LAMBDA r : Ge(r.Pickup_Date, start)
                                      /\ Le(r.Pickup_Date, end))
    ELSE df

\* Lines 46-49.
ApplyFilters(df, selected, range) == DateFilter(DriverFilter(df, selected), range)

\* The dates the user picks in the date widget.
DateChoices == {7}

\* The values the date widget returns after the user touched it: a range
\* being picked (its first endpoint only) or a picked range.
DateRangeChoices ==
    {<<d>> : d \in DateChoices}
    \cup {p \in DateChoices \X DateChoices : p[1] <= p[2]}

\* ------------------------------------------------------- Calculate summary
\* A faulty count: the number of cells, empty or not (Series.size).
count_all(cells) == Len(cells)

\* Series.count(): the number of non-empty cells.
count(cells) == Cardinality({i \in 1..Len(cells) : cells[i] # <<>>})

\* Series.sum(): the sum of the non-empty cells, 0 when there is none.
RECURSIVE sum(_)
sum(cells) ==
    IF cells = <<>> THEN 0
    ELSE (IF Head(cells) = <<>> THEN 0 ELSE Head(cells)[1]) + sum(Tail(cells))

\* Line 64.
expense_cols == <<"Loan Exp", "Insurance", "IFTA", "Plates", "Prepass",
                  "Office", "Repairs", "Fuel", "Tolls", "Factoring Fee">>

ExpenseCategories == {expense_cols[i] : i \in 1..Len(expense_cols)}

\* Every (Truck, Driver) key in sorted order.
SortedKeys ==
    [k \in 1..(Len(TruckOrder) * Len(DriverOrder)) |->
        <<TruckOrder[((k - 1) \div Len(DriverOrder)) + 1],
          DriverOrder[((k - 1) % Len(DriverOrder)) + 1]>>]

\* The rows of one group.
GroupRows(df, key) ==
    SelectSeq(df, LAMBDA r : r.Truck = key[1] /\ r.Driver = key[2])

Column(df, name) == [i \in 1..Len(df) |-> df[i][name]]

\* Lines 57-61 and 66-67: groupby(["Truck", "Driver"]) keeps the keys that
\* occur in a row, sorted; a row with an empty Truck or Driver belongs to no
\* group (dropna=True).  Every category column starts at 0.
GroupRow(df, key) ==
    [Truck |-> key[1], Driver |-> key[2],
     Total_Loads |-> count(Column(GroupRows(df, key), "Inv_Amt")),
     Total_Inv_Amt |-> sum(Column(GroupRows(df, key), "Inv_Amt")),
     Total_Net_Pay |-> sum(Column(GroupRows(df, key), "Net_pay"))]
    @@ [c \in ExpenseCategories |-> 0]

GroupBy(df) ==
    LET keys == SelectSeq(SortedKeys, LAMBDA k : GroupRows(df, k) # <<>>)
    IN  [i \in 1..Len(keys) |-> GroupRow(df, keys[i])]

\* Lines 71-75: the first column whose name contains "truck" or "unit";
\* 0 stands for None.
IsTruckCol(col) ==
    LET name == lower(col)
    IN  In(<<"t","r","u","c","k">>, name) \/ In(<<"u","n","i","t">>, name)

truck_col(df) ==
    LET hits == {i \in 1..Len(df.columns) : IsTruckCol(df.columns[i])}
    IN  IF hits = {} THEN 0 ELSE CHOOSE i \in hits : \A j \in hits : i <= j

\* Lines 77-79: the first column whose name contains "amount" or "cost".
IsAmtCol(col) ==
    LET name == lower(col)
    IN  In(<<"a","m","o","u","n","t">>, name) \/ In(<<"c","o","s","t">>, name)

amt_col(df) ==
    LET hits == {i \in 1..Len(df.columns) : IsAmtCol(df.columns[i])}
    IN  IF hits = {} THEN 0 ELSE CHOOSE i \in hits : \A j \in hits : i <= j

\* Line 80: df.groupby(truck_col)[amt_col].sum().to_dict(); rows whose
\* identifier is empty belong to no group.
expenses(df, tcol, acol) ==
    LET ids == {df.rows[i][tcol] : i \in 1..Len(df.rows)} \ {NaN}
    IN  [id \in ids |->
            sum(Column(SelectSeq(df.rows, LAMBDA r : r[tcol] = id), acol))]

\* A faulty rule order: "driver" looked for before "loan".
colname_driver_first(sheet) ==
    LET s == lower(sheet)
    IN  IF In(<<"d","r","i","v","e","r">>, s) THEN "Factoring Fee"
        ELSE IF In(<<"l","o","a","n">>, s) THEN "Loan Exp"
        ELSE IF In(<<"i","n","s","u","r">>, s) THEN "Insurance"
        ELSE IF In(<<"e","l","d">>, s) THEN "IFTA"
        ELSE IF In(<<"r","e","g">>, s) THEN "Plates"
        ELSE IF In(<<"p","r","e","p","a","s","s">>, s) THEN "Prepass"
        ELSE IF In(<<"o","f","f","i","c","e">>, s) THEN "Office"
        ELSE IF In(<<"r","e","p","a","i","r">>, s)
                \/ In(<<"m","a","i","n","t">>, s) THEN "Repairs"
        ELSE IF In(<<"f","u","e","l">>, s) THEN "Fuel"
        ELSE IF In(<<"t","o","l","l">>, s) THEN "Tolls"
        ELSE "None"

\* Lines 82-103: the category of a sheet name; "None" when no keyword fits.
colname(sheet) ==
    LET s == lower(sheet)
    IN  IF In(<<"l","o","a","n">>, s) THEN "Loan Exp"
        ELSE IF In(<<"i","n","s","u","r">>, s) THEN "Insurance"
        ELSE IF In(<<"e","l","d">>, s) THEN "IFTA"
        ELSE IF In(<<"r","e","g">>, s) THEN "Plates"
        ELSE IF In(<<"p","r","e","p","a","s","s">>, s) THEN "Prepass"
        ELSE IF In(<<"o","f","f","i","c","e">>, s) THEN "Office"
        ELSE IF In(<<"r","e","p","a","i","r">>, s)
                \/ In(<<"m","a","i","n","t">>, s) THEN "Repairs"
        ELSE IF In(<<"f","u","e","l">>, s) THEN "Fuel"
        ELSE IF In(<<"t","o","l","l">>, s) THEN "Tolls"
        ELSE IF In(<<"d","r","i","v","e","r">>, s) THEN "Factoring Fee"
        ELSE "None"

\* A faulty update: the sheet's amount assigned instead of added.
AddExpense_overwrite(row, col, exp) ==
    IF row.Truck \in DOMAIN exp
    THEN [row EXCEPT ![col] = exp[row.Truck]]
    ELSE row

\* Lines 105-108: one summary row after one sheet's expenses were added.
AddExpense(row, col, exp) ==
    IF row.Truck \in DOMAIN exp
    THEN [row EXCEPT ![col] = @ + exp[row.Truck]]
    ELSE row

\* A faulty loop: only the first summary row of a truck gets the amount.
LoadSheet_first_match(summ, df) ==
    IF truck_col(df) # 0 /\ amt_col(df) # 0 /\ colname(df.name) # "None"
    THEN [i \in 1..Len(summ) |->
            IF \E j \in 1..(i - 1) : summ[j].Truck = summ[i].Truck
            THEN summ[i]
            ELSE AddExpense(summ[i], colname(df.name),
                            expenses(df, truck_col(df), amt_col(df)))]
    ELSE summ

\* Lines 71-108: the body of the loop, for one sheet.
LoadSheet(summ, df) ==
    LET tcol == truck_col(df)
        acol == amt_col(df)
        col == colname(df.name)
        exp == expenses(df, tcol, acol)
    IN  IF tcol # 0 /\ acol # 0 /\ col # "None"
        THEN [i \in 1..Len(summ) |-> AddExpense(summ[i], col, exp)]
        ELSE summ

\* Lines 70-108: the loop over the expense sheets.
RECURSIVE ExpenseLoader(_, _)
ExpenseLoader(summ, sheets) ==
    IF sheets = <<>> THEN summ
    ELSE ExpenseLoader(LoadSheet(summ, Head(sheets)), Tail(sheets))

\* Series.sum(axis=1) over the category columns.
RECURSIVE RowSum(_, _)
RowSum(row, cols) ==
    IF cols = <<>> THEN 0 ELSE row[Head(cols)] + RowSum(row, Tail(cols))

Abs(x) == IF x < 0 THEN -x ELSE x

RECURSIVE Gcd(_, _)
Gcd(a, b) == IF b = 0 THEN a ELSE Gcd(b, a % b)

\* A faulty division: 0 instead of a value that is not a number.
Divide_guarded(a, b) ==
    IF b = 0
    THEN [kind |-> "finite", num |-> 0, den |-> 1]
    ELSE [kind |-> "finite",
          num |-> a \div Gcd(Abs(a), b), den |-> b \div Gcd(Abs(a), b)]

\* Line 113: float division of a by the integer b: the quotient as a
\* fraction in lowest terms; by 0 the result is not a number: nan for 0/0,
\* inf or -inf otherwise.
Divide(a, b) ==
    IF b = 0
    THEN [kind |-> IF a = 0 THEN "nan" ELSE IF a > 0 THEN "inf" ELSE "-inf",
          num |-> 0, den |-> 0]
    ELSE [kind |-> "finite",
          num |-> a \div Gcd(Abs(a), b), den |-> b \div Gcd(Abs(a), b)]

\* A faulty profit: taken from the invoiced amount, not the net pay.
Calculations_from_invoice(row) ==
    LET total == RowSum(row, expense_cols)
        profit == row.Total_Inv_Amt - total
    IN  row @@ [Total_Expenses |-> total, Profit_Loss |-> profit,
                Profit_per_Load |-> Divide(profit, row.Total_Loads)]

\* Lines 111-113.
Calculations(row) ==
    LET total == RowSum(row, expense_cols)
        profit == row.Total_Net_Pay - total
    IN  row @@ [Total_Expenses |-> total, Profit_Loss |-> profit,
                Profit_per_Load |-> Divide(profit, row.Total_Loads)]

\* Lines 57-113.
Summary(df, sheets) ==
    LET loaded == ExpenseLoader(GroupBy(df), sheets)
    IN  [i \in 1..Len(loaded) |-> Calculations(loaded[i])]

\* ------------------------------------------------------- Plots and exports
\* Line 127: the bars of the Profit/Loss chart.
fig_profit_of(summ) ==
    [i \in 1..Len(summ) |-> <<summ[i].Truck, summ[i].Profit_Loss>>]

\* Line 133: the options of the truck select box.
TruckOptions(summ) == {summ[i].Truck : i \in 1..Len(summ)}

\* Line 134: summary[summary["Truck"] == truck_choice]
RowsOfTruck(summ, truck) == SelectSeq(summ, LAMBDA r : r.Truck = truck)

\* Lines 136-138: the categories of the chosen row with an amount above 0.
exp_df_of(truck_row) ==
    SelectSeq([i \in 1..Len(expense_cols) |->
                    <<expense_cols[i], truck_row[expense_cols[i]]>>],
              LAMBDA e : e[2] > 0)

\* Lines 148-152: one sheet "Report" holding the summary.
to_excel(summ) == [sheet_name |-> "Report", rows |-> summ]

\* Line 175: round(x, 2) of a quotient, in hundredths.
round2(q) ==
    IF q.kind = "finite"
    THEN [kind |-> "finite",
          hundredths |-> (200 * q.num + q.den) \div (2 * q.den)]
    ELSE [kind |-> q.kind, hundredths |-> 0]

\* Lines 159-181: a title and one line of cells per summary row.
to_pdf(summ) ==
    [title |-> "Fleet Report",
     rows |-> [i \in 1..Len(summ) |->
                [summ[i] EXCEPT !.Profit_per_Load = round2(@)]]]

\* ------------------------------------------------------------------- state
VARIABLES
    pc,               \* where the current run of the script is
    ran,              \* the sections the current run has executed
    uploaded_file,    \* the uploaded workbook (NoFile before the upload)
    touched,          \* the user has set the filter widgets
    selected_driver,  \* value of the driver multiselect
    date_range,       \* value of the date widget
    error,            \* the message st.error has shown, "" when none
    exception,        \* the exception that ended the run, "" when none
    income_df,
    expense_sheets,
    df_filtered,
    summary,
    fig_profit,
    truck_choice,
    exp_df,
    excel_data,
    pdf_data

widgets == <<touched, selected_driver, date_range>>
script == <<error, exception, income_df, expense_sheets, df_filtered, summary,
            fig_profit, truck_choice, exp_df, excel_data, pdf_data>>
vars == <<pc, ran, uploaded_file, widgets, script>>

NoExport == [sheet_name |-> "", rows |-> <<>>]
NoPdf == [title |-> "", rows |-> <<>>]

\* The script's variables before a run has assigned them.
Fresh ==
    /\ error = ""
    /\ exception = ""
    /\ income_df = <<>>
    /\ expense_sheets = <<>>
    /\ df_filtered = <<>>
    /\ summary = <<>>
    /\ fig_profit = <<>>
    /\ truck_choice = NaN
    /\ exp_df = <<>>
    /\ excel_data = NoExport
    /\ pdf_data = NoPdf

\* Line 13: no file has been uploaded; the script body is skipped.
Init ==
    /\ pc = "idle"
    /\ ran = {}
    /\ uploaded_file = NoFile
    /\ touched = FALSE
    /\ selected_driver = {}
    /\ date_range = <<>>
    /\ Fresh

\* Line 13: the user uploads a workbook; the script runs from the top.
Upload ==
    /\ pc = "idle"
    /\ \E wb \in Workbooks : uploaded_file' = wb
    /\ pc' = "load"
    /\ UNCHANGED <<ran, widgets, script>>

\* A faulty loader: the error is shown but the run goes on (no st.stop()).
LoadSheets_no_stop ==
    /\ pc = "load"
    /\ ran' = ran \cup {"LOAD SHEETS"}
    /\ error' = IF uploaded_file.has_income THEN error
                ELSE "Could not find 'Income' sheet in the file."
    /\ income_df' = ParseDates(uploaded_file)
    /\ expense_sheets' = uploaded_file.others
    /\ pc' = "filters"
    /\ UNCHANGED <<uploaded_file, widgets, exception, df_filtered, summary,
                   fig_profit, truck_choice, exp_df, excel_data, pdf_data>>

\* Lines 16-31: read the Income sheet (stop with an error when that fails),
\* read the other sheets, parse the pickup dates.
LoadSheets ==
    /\ pc = "load"
    /\ ran' = ran \cup {"LOAD SHEETS"}
    /\ IF ~uploaded_file.has_income
       THEN /\ error' = "Could not find 'Income' sheet in the file."
            /\ pc' = "stopped"
            /\ UNCHANGED <<income_df, expense_sheets>>
       ELSE /\ income_df' = ParseDates(uploaded_file)
            /\ expense_sheets' = uploaded_file.others
            /\ pc' = "filters"
            /\ UNCHANGED error
    /\ UNCHANGED <<uploaded_file, widgets, exception, df_filtered, summary,
                   fig_profit, truck_choice, exp_df, excel_data, pdf_data>>

\* Lines 34-52: the widgets return their defaults until the user has set
\* them; the filters are applied.
Filters ==
    /\ pc = "filters"
    /\ ran' = ran \cup {"FILTERS"}
    /\ selected_driver' = IF touched THEN selected_driver ELSE drivers(income_df)
    /\ date_range' = IF touched THEN date_range ELSE DefaultDateRange(income_df)
    /\ df_filtered' = ApplyFilters(income_df, selected_driver', date_range')
    /\ pc' = "summary"
    /\ UNCHANGED <<uploaded_file, touched, error, exception, income_df,
                   expense_sheets, summary, fig_profit, truck_choice, exp_df,
                   excel_data, pdf_data>>

\* Lines 55-121: group, load the expenses, calculate, show the table.
CalculateSummary ==
    /\ pc = "summary"
    /\ ran' = ran \cup {"CALCULATE SUMMARY"}
    /\ summary' = Summary(df_filtered, expense_sheets)
    /\ pc' = "plots"
    /\ UNCHANGED <<uploaded_file, widgets, error, exception, income_df,
                   expense_sheets, df_filtered, fig_profit, truck_choice,
                   exp_df, excel_data, pdf_data>>

\* Lines 124-142: the bar chart, the truck select box and the pie chart.
\* The select box returns one of its options (the first, or the one the
\* user picked).  With no option it returns None, no row equals it and
\* .iloc[0] raises IndexError.
Plots ==
    /\ pc = "plots"
    /\ ran' = ran \cup {"PLOTS"}
    /\ fig_profit' = fig_profit_of(summary)
    /\ IF TruckOptions(summary) = {}
       THEN /\ exception' = "IndexError"
            /\ pc' = "raised"
            /\ UNCHANGED <<truck_choice, exp_df>>
       ELSE /\ \E choice \in TruckOptions(summary) :
                 /\ truck_choice' = choice
                 /\ exp_df' = exp_df_of(RowsOfTruck(summary, choice)[1])
            /\ pc' = "exports"
            /\ UNCHANGED exception
    /\ UNCHANGED <<uploaded_file, widgets, error, income_df, expense_sheets,
                   df_filtered, summary, excel_data, pdf_data>>

\* Lines 145-185: both download buttons.
Exports ==
    /\ pc = "exports"
    /\ ran' = ran \cup {"EXPORTS"}
    /\ excel_data' = to_excel(summary)
    /\ pdf_data' = to_pdf(summary)
    /\ pc' = "done"
    /\ UNCHANGED <<uploaded_file, widgets, error, exception, income_df,
                   expense_sheets, df_filtered, summary, fig_profit,
                   truck_choice, exp_df>>

\* The user sets the driver and date widgets of the sidebar: the script is
\* run again from the top, and its variables start afresh.
Rerun ==
    /\ pc \in {"done", "raised"}
    /\ touched' = TRUE
    /\ \E sel \in SUBSET drivers(income_df) : selected_driver' = sel
    /\ \E range \in DateRangeChoices \cup {DefaultDateRange(income_df)} :
            date_range' = range
    /\ pc' = "load"
    /\ ran' = {}
    /\ error' = ""
    /\ exception' = ""
    /\ income_df' = <<>>
    /\ expense_sheets' = <<>>
    /\ df_filtered' = <<>>
    /\ summary' = <<>>
    /\ fig_profit' = <<>>
    /\ truck_choice' = NaN
    /\ exp_df' = <<>>
    /\ excel_data' = NoExport
    /\ pdf_data' = NoPdf
    /\ UNCHANGED uploaded_file

Next ==
    \/ Upload
    \/ LoadSheets
    \/ Filters
    \/ CalculateSummary
    \/ Plots
    \/ Exports
    \/ Rerun

Spec == Init /\ [][Next]_vars

\* ------------------------------------------------------------------ claims
\* Positions of a run at which the filters, resp. the summary, are computed.
AfterFilters == pc \in {"summary", "plots", "exports", "done", "raised"}
AfterSummary == pc \in {"plots", "exports", "done", "raised"}

\* C1: when the workbook has no "Income" sheet, the run shows the error and
\* stops in the loading section: no later section runs, nothing is loaded,
\* filtered, aggregated, drawn or exported, and the run takes no further
\* step.
C1_MissingIncomeHalts ==
    (~uploaded_file.has_income /\ pc \notin {"idle", "load"}) =>
        /\ pc = "stopped"
        /\ error = "Could not find 'Income' sheet in the file."
        /\ ran = {"LOAD SHEETS"}
        /\ expense_sheets = <<>>
        /\ df_filtered = <<>>
        /\ summary = <<>>
        /\ fig_profit = <<>>
        /\ exp_df = <<>>
        /\ excel_data = NoExport
        /\ pdf_data = NoPdf
        /\ ~ENABLED Next

\* C1 witness: a workbook with other sheets but no Income sheet was read.
C1_Witness ==
    /\ pc = "stopped"
    /\ uploaded_file.others # <<>>
    /\ error # ""

RECURSIVE SumField(_, _)
SumField(rows, name) ==
    IF rows = <<>> THEN 0 ELSE Head(rows)[name] + SumField(Tail(rows), name)

\* C2 as stated: the Total_Loads of the summary add up to the number of
\* filtered income rows, whatever cells are empty.
C2_LoadsEqualFilteredRows ==
    AfterSummary => SumField(summary, "Total_Loads") = Len(df_filtered)

\* C2 amended: the Total_Loads of the summary add up to the number of
\* filtered income rows whose Truck and Inv Amt are both non-empty.
C2_LoadsEqualCountedRows ==
    AfterSummary =>
        SumField(summary, "Total_Loads")
            = Cardinality({i \in 1..Len(df_filtered) :
                              /\ df_filtered[i].Truck # NaN
                              /\ df_filtered[i].Inv_Amt # <<>>})

\* C2 witness: a finished run whose filtered rows include one with an empty
\* Inv Amt and one with an empty Truck.
C2_Witness ==
    /\ pc = "done"
    /\ \E i \in 1..Len(df_filtered) : df_filtered[i].Inv_Amt = <<>>
    /\ \E i \in 1..Len(df_filtered) : df_filtered[i].Truck = NaN

\* C3 as stated: with an Income sheet present no run ends in an exception.
C3_NeverRaises ==
    uploaded_file.has_income => (pc # "raised" /\ exception = "")

\* C4 as stated: without a Pickup column every date is null and, with the
\* default date range, every record of a selected driver passes the filter.
C4_NoPickupKeepsAllRows ==
    (AfterFilters /\ uploaded_file.has_income /\ ~uploaded_file.has_pickup
        /\ ~touched) =>
        /\ \A i \in 1..Len(income_df) : income_df[i].Pickup_Date = NaT
        /\ df_filtered
             = SelectSeq(income_df, LAMBDA r : r.Driver \in selected_driver)

\* C5: the filtered rows are exactly the income rows, in order, whose Driver
\* is selected and, when the date widget gave two endpoints, whose
\* Pickup_Date is present and lies between midnight of the start date and
\* midnight of the end date, both included; with fewer endpoints the date
\* is not looked at.
C5_Passes(r) ==
    /\ r.Driver \in selected_driver
    /\ Len(date_range) = 2 =>
          /\ r.Pickup_Date # NaT
          /\ date_range[1] # NaT
          /\ date_range[2] # NaT
          /\ date_range[1] * TicksPerDay <= r.Pickup_Date
          /\ r.Pickup_Date <= date_range[2] * TicksPerDay

C5_FilterExact ==
    AfterFilters => df_filtered = SelectSeq(income_df, C5_Passes)

\* C5 witness: a finished run with a two-endpoint range that keeps a row
\* dated on both endpoints and drops a selected driver's undated row.
C5_Witness ==
    /\ pc = "done"
    /\ Len(date_range) = 2
    /\ \E i \in 1..Len(df_filtered) :
          /\ df_filtered[i].Pickup_Date = date_range[1] * TicksPerDay
          /\ df_filtered[i].Pickup_Date = date_range[2] * TicksPerDay
    /\ \E i \in 1..Len(income_df) :
          /\ income_df[i].Driver \in selected_driver
          /\ income_df[i].Pickup_Date = NaT

\* The amounts of sheet df on the rows whose identifier (column id) equals
\* truck, read from column amt; 0 when the sheet lacks either column.
C6_SheetAmount(df, id, amt, truck) ==
    LET F[j \in 0..Len(df.rows)] ==
            IF j = 0 THEN 0
            ELSE F[j - 1]
                 + (IF df.rows[j][id] = truck /\ df.rows[j][amt] # <<>>
                    THEN df.rows[j][amt][1] ELSE 0)
    IN  IF id = 0 \/ amt = 0 THEN 0 ELSE F[Len(df.rows)]

\* The same over the sheets whose category is cat; of[k] holds the category,
\* the identifier column and the amount column of sheets[k].
C6_CategoryAmount(sheets, of, cat, truck) ==
    LET F[k \in 0..Len(sheets)] ==
            IF k = 0 THEN 0
            ELSE F[k - 1]
                 + (IF of[k].cat = cat
                    THEN C6_SheetAmount(sheets[k], of[k].id, of[k].amt, truck)
                    ELSE 0)
    IN  F[Len(sheets)]

\* C6: after aggregation every category field of every summary row is the
\* sum, over the sheets of that category that have an identifier and an
\* amount column, of the amounts on the rows whose identifier equals the
\* row's Truck exactly; 0 when there is none.
C6_CategoryFields ==
    AfterSummary =>
        \A of \in {[k \in 1..Len(expense_sheets) |->
                        [cat |-> colname(expense_sheets[k].name),
                         id |-> truck_col(expense_sheets[k]),
                         amt |-> amt_col(expense_sheets[k])]]} :
            \A i \in 1..Len(summary) : \A cat \in ExpenseCategories :
                summary[i][cat]
                    = C6_CategoryAmount(expense_sheets, of, cat,
                                        summary[i].Truck)

\* C6 witness: a finished run in which two sheets of the category Fuel, one
\* of them with two rows of the truck, add up on a row.
C6_Witness ==
    /\ pc = "done"
    /\ Len(expense_sheets) = 2
    /\ \E i \in 1..Len(summary) : summary[i]["Fuel"] = 250

\* The ordered keyword rules of the category mapping.
C7_Rules == <<
    <<{<<"l","o","a","n">>}, "Loan Exp">>,
    <<{<<"i","n","s","u","r">>}, "Insurance">>,
    <<{<<"e","l","d">>}, "IFTA">>,
    <<{<<"r","e","g">>}, "Plates">>,
    <<{<<"p","r","e","p","a","s","s">>}, "Prepass">>,
    <<{<<"o","f","f","i","c","e">>}, "Office">>,
    <<{<<"r","e","p","a","i","r">>, <<"m","a","i","n","t">>}, "Repairs">>,
    <<{<<"f","u","e","l">>}, "Fuel">>,
    <<{<<"t","o","l","l">>}, "Tolls">>,
    <<{<<"d","r","i","v","e","r">>}, "Factoring Fee">> >>

\* The rules whose keyword occurs in the lower-cased name.
C7_Matching(low) ==
    {k \in 1..Len(C7_Rules) : \E kw \in C7_Rules[k][1] : In(kw, low)}

C7_First(hits) ==
    IF hits = {} THEN "None"
    ELSE C7_Rules[CHOOSE k \in hits : \A j \in hits : k <= j][2]

\* The category of the first rule that matches the name, "None" without one.
C7_FirstRule(name) == C7_First(C7_Matching(lower(name)))

C7_RepairsLog == <<"R","e","p","a","i","r","s","L","o","g">>

\* C7: every loaded sheet gets the category of the first rule of the ordered
\* list that matches its lower-cased name; "RepairsLog" gets "Repairs"; and
\* a category that no loaded sheet's name maps to stays 0 on every summary
\* row, so a sheet matching no rule changes no field.
C7_CategoryByName ==
    AfterSummary =>
        \A first \in {[k \in 1..Len(expense_sheets) |->
                           C7_FirstRule(expense_sheets[k].name)]} :
            /\ \A k \in 1..Len(expense_sheets) :
                  /\ colname(expense_sheets[k].name) = first[k]
                  /\ expense_sheets[k].name = C7_RepairsLog
                        => first[k] = "Repairs"
            /\ \A i \in 1..Len(summary) :
                  \A cat \in ExpenseCategories :
                      (\A k \in 1..Len(expense_sheets) : first[k] # cat)
                        => summary[i][cat] = 0

\* C7 witness: a finished run with a sheet that matches no rule and a sheet
\* whose name matches two rules, filed under the earlier one.
C7_Witness ==
    /\ pc = "done"
    /\ \E k \in 1..Len(expense_sheets) :
          colname(expense_sheets[k].name) = "None"
    /\ \E k \in 1..Len(expense_sheets) :
          /\ In(<<"d","r","i","v","e","r">>, lower(expense_sheets[k].name))
          /\ colname(expense_sheets[k].name) = "Loan Exp"
    /\ \E i \in 1..Len(summary) :
          summary[i]["Loan Exp"] = 75 /\ summary[i]["Factoring Fee"] = 0

\* C8: on every summary row Total Expenses is the sum of the ten category
\* fields and Profit/Loss is Total_Net_Pay less Total Expenses.
C8_TotalsExact ==
    AfterSummary =>
        \A i \in 1..Len(summary) :
            /\ summary[i].Total_Expenses
                 = summary[i]["Loan Exp"] + summary[i]["Insurance"]
                   + summary[i]["IFTA"] + summary[i]["Plates"]
                   + summary[i]["Prepass"] + summary[i]["Office"]
                   + summary[i]["Repairs"] + summary[i]["Fuel"]
                   + summary[i]["Tolls"] + summary[i]["Factoring Fee"]
            /\ summary[i].Profit_Loss
                 = summary[i].Total_Net_Pay - summary[i].Total_Expenses

\* C8 witness: the worked example: two loads of T1/D1 and a Fuel sheet give
\* Total_Loads 2, Total_Inv_Amt 1500, Total_Net_Pay 1200, Fuel 200,
\* Total Expenses 200, Profit/Loss 1000 and Profit per Load 500.
C8_Witness ==
    /\ pc = "done"
    /\ \E i \in 1..Len(summary) :
          /\ summary[i].Truck = "T1" /\ summary[i].Driver = "D1"
          /\ summary[i].Total_Loads = 2
          /\ summary[i].Total_Inv_Amt = 1500
          /\ summary[i].Total_Net_Pay = 1200
          /\ summary[i]["Fuel"] = 200
          /\ summary[i].Total_Expenses = 200
          /\ summary[i].Profit_Loss = 1000
          /\ summary[i].Profit_per_Load
                = [kind |-> "finite", num |-> 500, den |-> 1]

\* C9: on every summary row Profit per Load is Profit/Loss divided by
\* Total_Loads; when Total_Loads is 0 the value is not a number (nan, or
\* inf / -inf by the sign of Profit/Loss); such a row does not end the run:
\* a run is ended by an exception only when the summary is empty.
C9_ProfitPerLoad ==
    AfterSummary =>
        /\ \A i \in 1..Len(summary) :
              IF summary[i].Total_Loads = 0
              THEN summary[i].Profit_per_Load.kind \in {"nan", "inf", "-inf"}
              ELSE /\ summary[i].Profit_per_Load.kind = "finite"
                   /\ summary[i].Profit_per_Load.den > 0
                   /\ summary[i].Profit_per_Load.num * summary[i].Total_Loads
                        = summary[i].Profit_Loss
                          * summary[i].Profit_per_Load.den
        /\ summary # <<>> =>
              /\ pc # "raised"
              /\ exception = ""
              /\ pc # "done" => ENABLED Next

\* C9 witness: a finished run whose summary has a row with no load and
\* another row with loads.
C9_Witness ==
    /\ pc = "done"
    /\ excel_data.rows = summary
    /\ \E i \in 1..Len(summary) : summary[i].Total_Loads = 0
    /\ \E i \in 1..Len(summary) :
          /\ summary[i].Total_Loads > 0
          /\ summary[i].Profit_per_Load.kind = "finite"

\* C10: the ten category fields of a summary row are those of every other
\* row of the same Truck, and those the same Truck has in the summary of
\* the whole Income sheet, whatever drivers and dates are selected.
C10_CategoriesByTruckOnly ==
    AfterSummary =>
        \A whole \in {Summary(income_df, expense_sheets)} :
            \A i \in 1..Len(summary) :
                /\ \A j \in 1..Len(summary) :
                      summary[j].Truck = summary[i].Truck
                        => \A cat \in ExpenseCategories :
                                summary[j][cat] = summary[i][cat]
                /\ \A j \in 1..Len(whole) :
                      whole[j].Truck = summary[i].Truck
                        => \A cat \in ExpenseCategories :
                                whole[j][cat] = summary[i][cat]

\* C10 witness: a finished run after the user set the filters, with two
\* rows of one truck and different drivers carrying an expense.
C10_Witness ==
    /\ pc = "done"
    /\ touched
    /\ \E i, j \in 1..Len(summary) :
          /\ summary[i].Truck = summary[j].Truck
          /\ summary[i].Driver # summary[j].Driver
          /\ summary[i].Total_Expenses > 0

====
